---- MODULE Spec2Model ----
(***************************************************************************)
(* Lassa-fever report pipeline: the consistency validator                  *)
(* (src/src/utils/data_validation.py), the extraction client               *)
(* (src/src/utils/gemini_extractor.py) and the dual-extraction retry loop  *)
(* (src/src/04b_LLM_Extraction_Supabase.py).                               *)
(*                                                                         *)
(* A Python str is modelled as a sequence of one-character strings, so     *)
(* that strip(), lower(), replace(), int() and str() are computed          *)
(* character by character.                                                 *)
(***************************************************************************)
EXTENDS Integers, Sequences, FiniteSets, TLC

\* ------------------------------------------------------------------------
\* Python str / int primitives used by the source
\* ------------------------------------------------------------------------

\* c.lower() for the upper-case letters
UpperToLower ==
    [A |-> "a", B |-> "b", C |-> "c", D |-> "d", E |-> "e", F |-> "f",
     G |-> "g", H |-> "h", I |-> "i", J |-> "j", K |-> "k", L |-> "l",
     M |-> "m", N |-> "n", O |-> "o", P |-> "p", Q |-> "q", R |-> "r",
     S |-> "s", T |-> "t", U |-> "u", V |-> "v", W |-> "w", X |-> "x",
     Y |-> "y", Z |-> "z"]

\* ord(c) for the letters
LetterOrd ==
    [A |-> 65, B |-> 66, C |-> 67, D |-> 68, E |-> 69, F |-> 70,
     G |-> 71, H |-> 72, I |-> 73, J |-> 74, K |-> 75, L |-> 76,
     M |-> 77, N |-> 78, O |-> 79, P |-> 80, Q |-> 81, R |-> 82,
     S |-> 83, T |-> 84, U |-> 85, V |-> 86, W |-> 87, X |-> 88,
     Y |-> 89, Z |-> 90,
     a |-> 97, b |-> 98, c |-> 99, d |-> 100, e |-> 101, f |-> 102,
     g |-> 103, h |-> 104, i |-> 105, j |-> 106, k |-> 107, l |-> 108,
     m |-> 109, n |-> 110, o |-> 111, p |-> 112, q |-> 113, r |-> 114,
     s |-> 115, t |-> 116, u |-> 117, v |-> 118, w |-> 119, x |-> 120,
     y |-> 121, z |-> 122]

\* int(c) for the digits
DigitValue ==
    ("0" :> 0) @@ ("1" :> 1) @@ ("2" :> 2) @@ ("3" :> 3)
        @@ ("4" :> 4) @@ ("5" :> 5) @@ ("6" :> 6) @@ ("7" :> 7) @@ ("8" :> 8) @@ ("9" :> 9)

Digits ==
    <<"0","1","2","3","4","5","6","7","8","9">>

\* ord(c) for the ASCII characters the texts of the model are made of
Ord(c) ==
    IF c \in DOMAIN LetterOrd THEN LetterOrd[c]
    ELSE IF c \in DOMAIN DigitValue THEN 48 + DigitValue[c]
    ELSE IF c = " " THEN 32
    ELSE IF c = "+" THEN 43
    ELSE 45

\* str.lower()
lower(s) ==
    [i \in 1..Len(s) |-> IF s[i] \in DOMAIN UpperToLower THEN UpperToLower[s[i]] ELSE s[i]]

\* str.replace("-", " ")
replace_hyphen(s) ==
    [i \in 1..Len(s) |-> IF s[i] = "-" THEN " " ELSE s[i]]

RECURSIVE lstrip(_)
lstrip(s) ==
    IF Len(s) > 0 /\ s[1] = " " THEN lstrip(Tail(s)) ELSE s

RECURSIVE rstrip(_)
rstrip(s) ==
    IF Len(s) > 0 /\ s[Len(s)] = " " THEN rstrip(SubSeq(s, 1, Len(s) - 1)) ELSE s

\* str.strip()
strip(s) ==
    rstrip(lstrip(s))

\* a < b on Python str (lexicographic by code point)
RECURSIVE str_lt(_, _)
str_lt(a, b) ==
    IF Len(b) = 0 THEN FALSE
    ELSE IF Len(a) = 0 THEN TRUE
    ELSE IF a[1] = b[1] THEN str_lt(Tail(a), Tail(b))
    ELSE Ord(a[1]) < Ord(b[1])

\* the digits of an int literal after its optional sign
int_digits(s) ==
    IF Len(s) > 0 /\ s[1] \in {"-", "+"} THEN Tail(s) ELSE s

\* int(s) does not raise ValueError: optional sign, then one or more digits,
\* surrounding whitespace ignored
int_ok(s) ==
    LET t == strip(s)
    IN  /\ Len(int_digits(t)) > 0
        /\ \A i \in 1..Len(int_digits(t)) : int_digits(t)[i] \in DOMAIN DigitValue

RECURSIVE digits_value(_)
digits_value(d) ==
    IF Len(d) = 0 THEN 0
    ELSE 10 * digits_value(SubSeq(d, 1, Len(d) - 1)) + DigitValue[d[Len(d)]]

\* int(s), for s with int_ok(s)
int(s) ==
    LET t == strip(s)
    IN  IF Len(t) > 0 /\ t[1] = "-" THEN 0 - digits_value(int_digits(t))
        ELSE digits_value(int_digits(t))

RECURSIVE nat_str(_)
nat_str(n) ==
    IF n < 10 THEN <<Digits[n + 1]>>
    ELSE nat_str(n \div 10) \o <<Digits[(n % 10) + 1]>>

\* str(n)
str(n) ==
    IF n < 0 THEN <<"-">> \o nat_str(0 - n) ELSE nat_str(n)

\* max(0, n)
max0(n) ==
    IF n < 0 THEN 0 ELSE n

\* the literal "total" the source compares state names with
total ==
    <<"t","o","t","a","l">>

\* ------------------------------------------------------------------------
\* src/src/utils/data_validation.py
\* ------------------------------------------------------------------------

\* is_total_row when the letter case counts
is_total_row_as_written(row) ==
    strip(row.States) = <<"T","o","t","a","l">>

\* row.get("States", "").strip().lower() == "total"
is_total_row(row) ==
    lower(strip(row.States)) = total

\* any(str(row.get(k, "")).strip() for k in row if k != "States")
any_other_field(row) ==
    \E k \in (DOMAIN row) \ {"States"} : strip(row[k]) # <<>>

\* sorted(): insertion after every element whose key is not greater (stable)
RECURSIVE insert_sorted(_, _)
insert_sorted(sorted_rows, row) ==
    IF Len(sorted_rows) = 0 THEN <<row>>
    ELSE IF str_lt(lower(strip(row.States)), lower(strip(sorted_rows[1].States)))
         THEN <<row>> \o sorted_rows
         ELSE <<sorted_rows[1]>> \o insert_sorted(Tail(sorted_rows), row)

RECURSIVE sorted_by_state(_)
sorted_by_state(rows) ==
    IF Len(rows) = 0 THEN <<>>
    ELSE insert_sorted(sorted_by_state(SubSeq(rows, 1, Len(rows) - 1)), rows[Len(rows)])

sort_table_rows(table_rows) ==
    LET total_rows == SelectSeq(table_rows, is_total_row)
        keep(row) == /\ strip(row.States) # <<>>
                     /\ ~is_total_row(row)
                     /\ any_other_field(row)
        non_total_rows == SelectSeq(table_rows, keep)
    IN  sorted_by_state(non_total_rows) \o total_rows

normalize_state_names(rows) ==
    [i \in 1..Len(rows) |->
        IF rows[i].States # <<>>
        THEN [rows[i] EXCEPT !.States = replace_hyphen(lower(rows[i].States))]
        ELSE rows[i]]

\* the four relevant columns of one row
relevant_columns(row) ==
    [column \in {"States", "Suspected", "Confirmed", "Deaths"} |-> row[column]]

\* The function returns from inside its loop, after the first row; with no
\* rows the loop body never runs and the function returns None.
filter_comparison_columns(rows) ==
    IF Len(rows) = 0 THEN [none |-> TRUE, rows |-> <<>>]
    ELSE [none |-> FALSE, rows |-> <<relevant_columns(rows[1])>>]

\* int(row.get(field, "0").strip() or "0") under try/except ValueError
field_text(text) ==
    IF strip(text) = <<>> THEN <<"0">> ELSE strip(text)

field_parses(text) ==
    int_ok(field_text(text))

field_value(text) ==
    IF field_parses(text) THEN int(field_text(text)) ELSE 0

\* validate_row without the rule Confirmed >= Deaths
validate_row_without_deaths_rule(row) ==
    IF strip(row.States) = <<>> \/ is_total_row(row)
    THEN [ok |-> TRUE, row |-> row, errors |-> <<>>]
    ELSE
    LET s0 == field_value(row.Suspected)
        c0 == field_value(row.Confirmed)
        d0 == field_value(row.Deaths)
        negative == s0 < 0 \/ c0 < 0 \/ d0 < 0
        parses == /\ field_parses(row.Suspected)
                  /\ field_parses(row.Confirmed)
                  /\ field_parses(row.Deaths)
        ok == parses /\ ~negative /\ ~(max0(s0) < max0(c0))
    IN  [ok |-> ok, row |-> row,
         errors |-> IF ok THEN <<>> ELSE <<"Invalid row">>]

\* validate_row when Suspected < Confirmed is recorded but Suspected is left as it is
validate_row_suspected_not_repaired(row) ==
    IF strip(row.States) = <<>> \/ is_total_row(row)
    THEN [ok |-> TRUE, row |-> row, errors |-> <<>>]
    ELSE
    LET s0 == field_value(row.Suspected)
        c0 == field_value(row.Confirmed)
        d0 == field_value(row.Deaths)
        negative == s0 < 0 \/ c0 < 0 \/ d0 < 0
        suspected == IF negative THEN max0(s0) ELSE s0
        confirmed == IF negative THEN max0(c0) ELSE c0
        deaths == IF negative THEN max0(d0) ELSE d0
        row1 == IF negative
                THEN [row EXCEPT !.Suspected = str(suspected),
                                 !.Confirmed = str(confirmed),
                                 !.Deaths = str(deaths)]
                ELSE row
        row2 == row1
        row3 == IF confirmed < deaths
                THEN [row2 EXCEPT !.Confirmed = str(deaths)]
                ELSE row2
        errors == (IF field_parses(row.Suspected) THEN <<>> ELSE <<"Non-numeric Suspected">>)
               \o (IF field_parses(row.Confirmed) THEN <<>> ELSE <<"Non-numeric Confirmed">>)
               \o (IF field_parses(row.Deaths) THEN <<>> ELSE <<"Non-numeric Deaths">>)
               \o (IF negative THEN <<"Negative values">> ELSE <<>>)
               \o (IF suspected < confirmed THEN <<"Suspected < Confirmed">> ELSE <<>>)
               \o (IF confirmed < deaths THEN <<"Confirmed < Deaths">> ELSE <<>>)
    IN  [ok |-> errors = <<>>, row |-> row3, errors |-> errors]

\* one iteration of the loop of validate_logical_consistency over a row
validate_row(row) ==
    IF strip(row.States) = <<>> \/ is_total_row(row)
    THEN [ok |-> TRUE, row |-> row, errors |-> <<>>]
    ELSE
    LET s0 == field_value(row.Suspected)
        c0 == field_value(row.Confirmed)
        d0 == field_value(row.Deaths)
        negative == s0 < 0 \/ c0 < 0 \/ d0 < 0
        suspected == IF negative THEN max0(s0) ELSE s0
        confirmed == IF negative THEN max0(c0) ELSE c0
        deaths == IF negative THEN max0(d0) ELSE d0
        row1 == IF negative
                THEN [row EXCEPT !.Suspected = str(suspected),
                                 !.Confirmed = str(confirmed),
                                 !.Deaths = str(deaths)]
                ELSE row
        row2 == IF suspected < confirmed
                THEN [row1 EXCEPT !.Suspected = str(confirmed)]
                ELSE row1
        row3 == IF confirmed < deaths
                THEN [row2 EXCEPT !.Confirmed = str(deaths)]
                ELSE row2
        errors == (IF field_parses(row.Suspected) THEN <<>> ELSE <<"Non-numeric Suspected">>)
               \o (IF field_parses(row.Confirmed) THEN <<>> ELSE <<"Non-numeric Confirmed">>)
               \o (IF field_parses(row.Deaths) THEN <<>> ELSE <<"Non-numeric Deaths">>)
               \o (IF negative THEN <<"Negative values">> ELSE <<>>)
               \o (IF suspected < confirmed THEN <<"Suspected < Confirmed">> ELSE <<>>)
               \o (IF confirmed < deaths THEN <<"Confirmed < Deaths">> ELSE <<>>)
    IN  [ok |-> errors = <<>>, row |-> row3, errors |-> errors]

\* the messages of the rows in order, each with its row number
RECURSIVE error_messages_upto(_, _, _)
error_messages_upto(rows, results, n) ==
    IF n = 0 THEN <<>>
    ELSE error_messages_upto(rows, results, n - 1)
         \o [k \in 1..Len(results[n].errors) |->
                [row |-> n, state |-> rows[n].States, message |-> results[n].errors[k]]]

\* validate_logical_consistency when the repaired rows are returned sorted
validate_logical_consistency_sorted(rows) ==
    LET results == [i \in 1..Len(rows) |-> validate_row(rows[i])]
    IN  [is_valid |-> \A i \in 1..Len(rows) : results[i].ok,
         validated_rows |-> sort_table_rows([i \in 1..Len(rows) |-> results[i].row]),
         error_messages |-> error_messages_upto(rows, results, Len(rows))]

\* lines 138-200: a deep copy of the rows is worked on and returned
validate_logical_consistency(rows) ==
    LET results == [i \in 1..Len(rows) |-> validate_row(rows[i])]
    IN  [is_valid |-> \A i \in 1..Len(rows) : results[i].ok,
         validated_rows |-> [i \in 1..Len(rows) |-> results[i].row],
         error_messages |-> error_messages_upto(rows, results, Len(rows))]

\* ------------------------------------------------------------------------
\* src/src/utils/gemini_extractor.py
\* ------------------------------------------------------------------------

\* the model names for which extract_table_with_gemini builds a request
SupportedModels ==
    {"gemini-2.0-flash", "gemini-2.5-flash-preview-04-17"}

\* One call.  outcome is what the environment does: "image_error" (the image
\* cannot be opened), "service_error" (generate_content raises), or a response
\* ("no_parsed": its .parsed is None, "rows": its .parsed holds rows).  For any
\* other model name neither branch assigns response, and returning it raises
\* UnboundLocalError, which the except clause turns into (False, message).
extract_table_with_gemini(model_name, outcome) ==
    IF outcome.kind = "image_error"
    THEN [success |-> FALSE, response |-> outcome, requests |-> 0]
    ELSE IF model_name \notin SupportedModels
    THEN [success |-> FALSE, response |-> outcome, requests |-> 0]
    ELSE IF outcome.kind = "service_error"
    THEN [success |-> FALSE, response |-> outcome, requests |-> 1]
    ELSE [success |-> TRUE, response |-> outcome, requests |-> 1]

parse_gemini_response(response) ==
    IF response.kind = "rows"
    THEN [success |-> TRUE, data |-> response.rows]
    ELSE [success |-> FALSE, data |-> <<>>]

\* log_extraction_differences without the rows beyond the shorter list
log_extraction_differences_aligned_only(enhanced_name, attempt, max_attempts, normalized_1, normalized_2) ==
    LET min_len == IF Len(normalized_1) < Len(normalized_2)
                   THEN Len(normalized_1) ELSE Len(normalized_2)
        aligned == [i \in 1..min_len |->
                       [row |-> i, iteration_1 |-> normalized_1[i],
                        iteration_2 |-> normalized_2[i]]]
        differs(e) == e.iteration_1 # e.iteration_2
    IN  [name |-> enhanced_name, attempt |-> attempt, max_attempts |-> max_attempts,
         rows |-> SelectSeq(aligned, differs),
         additional_1 |-> <<>>,
         additional_2 |-> <<>>]

\* the record log_extraction_differences appends to differing_outputs.txt
log_extraction_differences(enhanced_name, attempt, max_attempts, normalized_1, normalized_2) ==
    LET min_len == IF Len(normalized_1) < Len(normalized_2)
                   THEN Len(normalized_1) ELSE Len(normalized_2)
        aligned == [i \in 1..min_len |->
                       [row |-> i, iteration_1 |-> normalized_1[i],
                        iteration_2 |-> normalized_2[i]]]
        differs(e) == e.iteration_1 # e.iteration_2
    IN  [name |-> enhanced_name, attempt |-> attempt, max_attempts |-> max_attempts,
         rows |-> SelectSeq(aligned, differs),
         additional_1 |-> SubSeq(normalized_1, min_len + 1, Len(normalized_1)),
         additional_2 |-> SubSeq(normalized_2, min_len + 1, Len(normalized_2))]

\* save_extracted_data_to_csv when the sorted rows are the ones written
save_extracted_data_to_csv_sorted(data, year, week) ==
    LET filtered_rows == sort_table_rows(data)
    IN  [i \in 1..Len(filtered_rows) |->
            [Week |-> week, Year |-> <<"2", "0">> \o year,
             States |-> filtered_rows[i].States,
             Suspected |-> filtered_rows[i].Suspected,
             Confirmed |-> filtered_rows[i].Confirmed,
             Probable |-> filtered_rows[i].Probable,
             HCW |-> filtered_rows[i].HCW,
             Deaths |-> filtered_rows[i].Deaths]]

\* the data rows save_extracted_data_to_csv writes under the header
save_extracted_data_to_csv(data, year, week) ==
    LET keep(row) == /\ strip(row.States) # <<>>
                     /\ (is_total_row(row) \/ any_other_field(row))
        filtered_rows == SelectSeq(data, keep)
    IN  [i \in 1..Len(filtered_rows) |->
            [Week |-> week, Year |-> <<"2", "0">> \o year,
             States |-> filtered_rows[i].States,
             Suspected |-> filtered_rows[i].Suspected,
             Confirmed |-> filtered_rows[i].Confirmed,
             Probable |-> filtered_rows[i].Probable,
             HCW |-> filtered_rows[i].HCW,
             Deaths |-> filtered_rows[i].Deaths]]

\* ------------------------------------------------------------------------
\* src/src/04b_LLM_Extraction_Supabase.py
\* ------------------------------------------------------------------------

max_attempts == 3

\* rows_to_use when two invalid iterations go on with their rows as extracted
rows_to_use_as_extracted(own_rows, own, other) ==
    IF own.is_valid THEN own_rows
    ELSE IF other.is_valid THEN other.validated_rows
    ELSE own_rows

\* rows_to_use when an invalid iteration keeps its own repaired rows
rows_to_use_never_the_other(own_rows, own, other) ==
    IF own.is_valid THEN own_rows ELSE own.validated_rows

\* lines 220-231: the rows an iteration goes on with: its own when they are
\* valid, else the other iteration's when those are valid, else its own
\* validated (repaired) rows
rows_to_use(own_rows, own, other) ==
    IF own.is_valid THEN own_rows
    ELSE IF other.is_valid THEN other.validated_rows
    ELSE own.validated_rows

\* six_values when the second comparison form is built from the rows as extracted
six_values_second_not_normalized(dict_rows_1, dict_rows_2, normalized_1, normalized_2) ==
    [short |-> FALSE,
     dict_rows_1 |-> dict_rows_1, dict_rows_2 |-> dict_rows_2,
     normalized_1 |-> normalized_1, normalized_2 |-> normalized_2,
     comparison_1 |-> filter_comparison_columns(normalized_1),
     comparison_2 |-> filter_comparison_columns(dict_rows_2)]

\* lines 233-245: the six values returned
six_values(dict_rows_1, dict_rows_2, normalized_1, normalized_2) ==
    [short |-> FALSE,
     dict_rows_1 |-> dict_rows_1, dict_rows_2 |-> dict_rows_2,
     normalized_1 |-> normalized_1, normalized_2 |-> normalized_2,
     comparison_1 |-> filter_comparison_columns(normalized_1),
     comparison_2 |-> filter_comparison_columns(normalized_2)]

\* lines 198-245, given the two results of validate_logical_consistency; the
\* locals is_valid_1 and is_valid_2 are kept beside what is returned
decide_rows(parsed_data, v1, v2, attempt, maximum) ==
    [is_valid_1 |-> v1.is_valid, is_valid_2 |-> v2.is_valid] @@
    (IF ~v1.is_valid /\ ~v2.is_valid /\ attempt < maximum
     THEN [short |-> TRUE]
     ELSE six_values(rows_to_use(parsed_data[1], v1, v2),
                     rows_to_use(parsed_data[2], v2, v1),
                     normalize_state_names(sort_table_rows(rows_to_use(parsed_data[1], v1, v2))),
                     normalize_state_names(sort_table_rows(rows_to_use(parsed_data[2], v2, v1)))))

\* short: the function returned the 2-tuple (True, None); otherwise the
\* 6-tuple the caller unpacks
validate_extraction_results(parsed_data, attempt, maximum) ==
    IF Len(parsed_data) < 2 THEN [short |-> TRUE]
    ELSE decide_rows(parsed_data,
                     validate_logical_consistency(parsed_data[1]),
                     validate_logical_consistency(parsed_data[2]),
                     attempt, maximum)

\* the value of website_data.processed after update_processing_status: the
\* UPDATE commits, or raises and is rolled back
update_processing_status(current, committed) ==
    IF committed THEN "Y" ELSE current

\* ------------------------------------------------------------------------
\* State
\* ------------------------------------------------------------------------

VARIABLES
    pc,             \* process_single_report: "off", "start", "extract", "evaluate",
                    \* "compare", "done"
    model_name,     \* the model name the report is processed with
    csv_file,       \* the file at output_path
    processed,      \* website_data.processed of the report
    attempt,        \* the local attempt
    i,              \* extraction calls made in the current attempt
    responses,      \* the local responses of the current attempt
    validated,      \* what validate_extraction_results returned to the caller
    calls,          \* extract_table_with_gemini calls made in the run
    history,        \* per finished attempt, in order: how it ended, the two
                    \* parsed row lists it validated (none when it ended
                    \* before) and what validate_extraction_results made of them
    diff_log,       \* the records appended to differing_outputs.txt
    result,         \* the return value: "none", "True" or "False"; "raised"
                    \* when an exception left the function
    v_pc,           \* validator harness: "off", "input" or "returned"
    v_rows,         \* the row list handed to validate_logical_consistency
    v_result,       \* what validate_logical_consistency returned
    e_pc,           \* extractor harness: "off", "input" or "returned"
    e_model_name,   \* the model_name handed to extract_table_with_gemini
    e_outcome,      \* what the call meets
    e_result,       \* what extract_table_with_gemini returned
    b_pc,           \* process_reports_from_supabase (04b): "off", "loop",
                    \* "finished" or "raised"
    b_reports,      \* the number of reports get_reports_to_process returned
    b_done,         \* per report processed so far, in order: its position in
                    \* the query result and the value process_single_report returned
    t_pc,           \* process_reports_from_supabase (03b) and the enhancement
                    \* it calls
    t_index,        \* the position of the report of the current loop pass
    t_output,       \* per report, the file at its output_path
    t_enhanced,     \* per report, website_data.enhanced
    t_locals,       \* the locals of enhance_table_lines_from_pdf_hq
    t_log           \* the log records of the enhancement stage

p_vars == <<pc, model_name, csv_file, processed, attempt, i, responses,
            validated, calls, history, diff_log, result>>

v_vars == <<v_pc, v_rows, v_result>>

e_vars == <<e_pc, e_model_name, e_outcome, e_result>>

b_vars == <<b_pc, b_reports, b_done>>

t_vars == <<t_pc, t_index, t_output, t_enhanced, t_locals, t_log>>

vars == <<p_vars, v_vars, e_vars, b_vars, t_vars>>

\* ------------------------------------------------------------------------
\* Bounds and input domains
\* ------------------------------------------------------------------------

\* largest count in a cell handed to the validator alone
MaxCount == 1

\* longest row list handed to the validator alone
MaxValRows == 1

\* longest row list an extraction returns
MaxRows == 2

Edo == <<"E","d","o">>

Total == <<"T","o","t","a","l">>

\* cell texts: blank, the counts 0..MaxCount, a negative number, non-numeric text
ValCells ==
    {str(n) : n \in 0..MaxCount} \cup {<<>>, <<"-","1">>, <<"x">>}

\* the Total row spelled in capitals between blanks
TotalSpelled == <<" ","T","O","T","A","L"," ">>

ValStates ==
    {Edo, Total, TotalSpelled, <<>>}

ValRows ==
    {[States |-> n, Suspected |-> s, Confirmed |-> c,
      Probable |-> <<>>, HCW |-> <<>>, Deaths |-> d] :
        n \in ValStates, s \in ValCells, c \in ValCells, d \in ValCells}

\* the rows an extraction may hold
ExtractedCells ==
    {<<"1">>, <<"2">>}

ExtractedRows ==
    {[States |-> n, Suspected |-> s, Confirmed |-> c,
      Probable |-> <<>>, HCW |-> <<>>, Deaths |-> <<"1">>] :
        n \in {Edo, Total}, s \in ExtractedCells, c \in {<<"2">>}}

\* what one extraction call can meet
Outcomes ==
    {[kind |-> k, rows |-> <<>>] : k \in {"image_error", "service_error", "no_parsed"}}
        \cup UNION {{[kind |-> "rows", rows |-> r] : r \in [1..k -> ExtractedRows]} :
                        k \in 0..MaxRows}

\* the default of process_reports_from_supabase and the name main() passes
ModelNames ==
    {"gemini-2.0-flash", "gemini-3-flash-preview"}

\* the report being processed (a row of website_data)
report ==
    [id |-> "report-1", year |-> <<"2","5">>, week |-> <<"7">>,
     enhanced_name |-> "Lines_Nigeria_W7.png"]

NoFile == [kind |-> "absent", rows |-> <<>>]

\* no call of validate_extraction_results has returned six values yet
NotValidated == [short |-> TRUE]

ValidatorOff ==
    /\ v_pc = "off"
    /\ v_rows = <<>>
    /\ v_result = validate_logical_consistency(<<>>)

ProcessOff ==
    /\ pc = "off"
    /\ model_name = "gemini-2.0-flash"
    /\ csv_file = NoFile
    /\ processed = "NULL"
    /\ attempt = 1
    /\ i = 0
    /\ responses = <<>>
    /\ validated = NotValidated
    /\ calls = 0
    /\ history = <<>>
    /\ diff_log = <<>>
    /\ result = "none"

\* every model name the stage is called with or handles
ExtractModelNames ==
    SupportedModels \cup ModelNames

NotExtracted == [success |-> FALSE, response |-> "none", requests |-> 0]

ExtractorOff ==
    /\ e_pc = "off"
    /\ e_model_name = "gemini-2.0-flash"
    /\ e_outcome = [kind |-> "rows", rows |-> <<>>]
    /\ e_result = NotExtracted

BatchOff ==
    /\ b_pc = "off"
    /\ b_reports = 1
    /\ b_done = <<>>

\* no call of enhance_table_lines_from_pdf_hq is under way
NoLocals == [stage |-> "none"]

EnhancerOff ==
    /\ t_pc = "off"
    /\ t_index = 0
    /\ t_output = <<>>
    /\ t_enhanced = <<>>
    /\ t_locals = NoLocals
    /\ t_log = <<>>

\* ------------------------------------------------------------------------
\* process_single_report
\* ------------------------------------------------------------------------

\* the report is one get_reports_to_process selected (processed is NULL); the
\* CSV may be left from an earlier run
Init ==
    /\ ValidatorOff
    /\ ExtractorOff
    /\ BatchOff
    /\ EnhancerOff
    /\ pc = "start"
    /\ model_name \in ModelNames
    /\ csv_file \in {NoFile, [kind |-> "existing", rows |-> <<>>]}
    /\ processed = "NULL"
    /\ attempt = 1
    /\ i = 0
    /\ responses = <<>>
    /\ validated = NotValidated
    /\ calls = 0
    /\ history = <<>>
    /\ diff_log = <<>>
    /\ result = "none"

\* the local parsed_data built from responses
parsed_data ==
    LET parsed == [k \in 1..Len(responses) |-> parse_gemini_response(responses[k])]
        ok(r) == r.success
        good == SelectSeq(parsed, ok)
    IN  [k \in 1..Len(good) |-> good[k].data]

\* lines 287-319: no enhanced name, an existing CSV, or no image end the run
\* before any extraction.  output_dir.mkdir (line 300) and the mkdir of
\* get_enhanced_image (line 149) are outside every try: when a folder cannot
\* be made the exception leaves the function ("raised"); with the CSV present
\* its folder exists and line 149 is not reached.
Begin ==
    /\ pc = "start"
    /\ \E has_name \in BOOLEAN, has_image \in BOOLEAN, committed \in BOOLEAN,
          folders_made \in BOOLEAN :
        IF ~has_name
        THEN /\ pc' = "done"
             /\ result' = "False"
             /\ UNCHANGED processed
        ELSE IF csv_file.kind = "absent" /\ ~folders_made
        THEN /\ pc' = "done"
             /\ result' = "raised"
             /\ UNCHANGED processed
        ELSE IF csv_file.kind # "absent"
        THEN /\ pc' = "done"
             /\ result' = "True"
             /\ processed' = update_processing_status(processed, committed)
        ELSE IF ~has_image
        THEN /\ pc' = "done"
             /\ result' = "False"
             /\ UNCHANGED processed
        ELSE /\ pc' = "extract"
             /\ UNCHANGED <<result, processed>>
    /\ UNCHANGED <<model_name, csv_file, attempt, i, responses, validated, calls,
                   history, diff_log, v_vars, e_vars, b_vars, t_vars>>

\* lines 329-337: one pass of "for i in range(2)"
ExtractCall ==
    /\ pc = "extract"
    /\ \E outcome \in Outcomes :
        LET r == extract_table_with_gemini(model_name, outcome)
        IN  /\ responses' = IF r.success THEN Append(responses, r.response) ELSE responses
    /\ i' = i + 1
    /\ calls' = calls + 1
    /\ pc' = IF i' = 2 THEN "evaluate" ELSE "extract"
    /\ UNCHANGED <<model_name, csv_file, processed, attempt, validated, history,
                   diff_log, result, v_vars, e_vars, b_vars, t_vars>>

\* NextAttempt when the counter is incremented twice
NextAttempt_counts_twice(how) ==
    /\ attempt' = attempt + 2
    /\ history' = Append(history, [how |-> how, parsed |-> <<>>, validated |-> NotValidated])
    /\ IF attempt + 2 <= max_attempts
       THEN /\ pc' = "extract"
            /\ i' = 0
            /\ responses' = <<>>
            /\ UNCHANGED result
       ELSE /\ pc' = "done"
            /\ result' = "False"
            /\ UNCHANGED <<i, responses>>
    /\ UNCHANGED <<model_name, csv_file, processed, validated, calls, diff_log, v_vars, e_vars, b_vars, t_vars>>

\* "attempt += 1; continue", then the loop test "while attempt <= max_attempts"
\* and, when it fails, lines 391-393
NextAttempt(how) ==
    /\ attempt' = attempt + 1
    /\ history' = Append(history, [how |-> how, parsed |-> <<>>, validated |-> NotValidated])
    /\ IF attempt + 1 <= max_attempts
       THEN /\ pc' = "extract"
            /\ i' = 0
            /\ responses' = <<>>
            /\ UNCHANGED result
       ELSE /\ pc' = "done"
            /\ result' = "False"
            /\ UNCHANGED <<i, responses>>
    /\ UNCHANGED <<model_name, csv_file, processed, validated, calls, diff_log, v_vars, e_vars, b_vars, t_vars>>

\* lines 339-342
TooFewResponses ==
    /\ pc = "evaluate"
    /\ Len(responses) < 2
    /\ NextAttempt("call_failed")

\* lines 344-356
TooFewParsed ==
    /\ pc = "evaluate"
    /\ Len(responses) = 2
    /\ Len(parsed_data) < 2
    /\ NextAttempt("parse_failed")

\* lines 358-361 and 395-397: validate_extraction_results returns the six
\* values, or the 2-tuple (True, None), which cannot be unpacked into six
\* names: the ValueError is caught by the except clause of the function
ValidateResults ==
    /\ pc = "evaluate"
    /\ Len(parsed_data) = 2
    /\ \E v \in {validate_extraction_results(parsed_data, attempt, max_attempts)} :
        IF v.short
        THEN /\ pc' = "done"
             /\ result' = "False"
             /\ history' = Append(history, [how |-> "both_invalid", parsed |-> parsed_data,
                                          validated |-> v])
             /\ UNCHANGED validated
        ELSE /\ pc' = "compare"
             /\ validated' = v
             /\ UNCHANGED <<result, history>>
    /\ UNCHANGED <<model_name, csv_file, processed, attempt, i, responses, calls,
                   diff_log, v_vars, e_vars, b_vars, t_vars>>

\* OutputsIdentical when the status is set before the CSV is written
OutputsIdentical_status_first ==
    /\ pc = "compare"
    /\ validated.comparison_1 = validated.comparison_2
    /\ \E written \in {"ok", "open_error", "write_error"}, committed \in BOOLEAN :
        IF written = "ok"
        THEN /\ csv_file' = [kind |-> "written",
                             rows |-> save_extracted_data_to_csv(
                                          validated.dict_rows_1, report.year, report.week)]
             /\ processed' = update_processing_status(processed, committed)
             /\ result' = "True"
             /\ history' = Append(history, [how |-> "saved", parsed |-> parsed_data,
                                            validated |-> validated])
        ELSE /\ csv_file' = IF written = "write_error"
                            THEN [kind |-> "partial", rows |-> <<>>]
                            ELSE csv_file
             /\ processed' = update_processing_status(processed, committed)
             /\ result' = "False"
             /\ history' = Append(history, [how |-> "not_saved", parsed |-> parsed_data,
                                            validated |-> validated])
    /\ pc' = "done"
    /\ UNCHANGED <<model_name, attempt, i, responses, validated, calls, diff_log, v_vars, e_vars, b_vars, t_vars>>

\* lines 364-374: the comparison holds; the CSV is written ("ok"), cannot be
\* opened ("open_error") or fails while being written ("write_error")
OutputsIdentical ==
    /\ pc = "compare"
    /\ validated.comparison_1 = validated.comparison_2
    /\ \E written \in {"ok", "open_error", "write_error"}, committed \in BOOLEAN :
        IF written = "ok"
        THEN /\ csv_file' = [kind |-> "written",
                             rows |-> save_extracted_data_to_csv(
                                          validated.dict_rows_1, report.year, report.week)]
             /\ processed' = update_processing_status(processed, committed)
             /\ result' = "True"
             /\ history' = Append(history, [how |-> "saved", parsed |-> parsed_data,
                                            validated |-> validated])
        ELSE /\ csv_file' = IF written = "write_error"
                            THEN [kind |-> "partial", rows |-> <<>>]
                            ELSE csv_file
             /\ UNCHANGED processed
             /\ result' = "False"
             /\ history' = Append(history, [how |-> "not_saved", parsed |-> parsed_data,
                                            validated |-> validated])
    /\ pc' = "done"
    /\ UNCHANGED <<model_name, attempt, i, responses, validated, calls, diff_log, v_vars, e_vars, b_vars, t_vars>>

\* OutputsDiffer when the rows are saved although the comparison fails
OutputsDiffer_and_saved ==
    /\ pc = "compare"
    /\ validated.comparison_1 # validated.comparison_2
    /\ csv_file' = [kind |-> "written",
                    rows |-> save_extracted_data_to_csv(
                                 validated.dict_rows_1, report.year, report.week)]
    /\ processed' = "Y"
    /\ attempt' = attempt + 1
    /\ history' = Append(history, [how |-> "differ", parsed |-> parsed_data,
                                   validated |-> validated])
    /\ pc' = "done"
    /\ result' = "True"
    /\ UNCHANGED <<model_name, i, responses, validated, calls, diff_log, v_vars, e_vars, b_vars, t_vars>>

\* lines 375-389: the comparison fails; the difference is logged (unless the
\* log cannot be written), attempt is incremented and line 389 returns True
OutputsDiffer ==
    /\ pc = "compare"
    /\ validated.comparison_1 # validated.comparison_2
    /\ \E logged \in BOOLEAN :
        diff_log' = IF logged
                    THEN Append(diff_log,
                                log_extraction_differences(
                                    report.enhanced_name, attempt, max_attempts,
                                    validated.normalized_1, validated.normalized_2))
                    ELSE diff_log
    /\ attempt' = attempt + 1
    /\ history' = Append(history, [how |-> "differ", parsed |-> parsed_data,
                                   validated |-> validated])
    /\ pc' = "done"
    /\ result' = "True"
    /\ UNCHANGED <<model_name, csv_file, processed, i, responses, validated, calls, v_vars, e_vars, b_vars, t_vars>>

Next ==
    \/ Begin
    \/ ExtractCall
    \/ TooFewResponses
    \/ TooFewParsed
    \/ ValidateResults
    \/ OutputsIdentical
    \/ OutputsDiffer

Spec ==
    Init /\ [][Next]_vars

\* ------------------------------------------------------------------------
\* process_reports_from_supabase (04b): the loop over the reports
\* ------------------------------------------------------------------------

\* the number of reports the query returns
MaxReports == 2

\* process_single_report is entered for the next report of the list
StartReport ==
    /\ pc' = "start"
    /\ csv_file' \in {NoFile, [kind |-> "existing", rows |-> <<>>]}
    /\ processed' = "NULL"
    /\ attempt' = 1
    /\ i' = 0
    /\ responses' = <<>>
    /\ validated' = NotValidated
    /\ calls' = 0
    /\ history' = <<>>
    /\ diff_log' = <<>>
    /\ result' = "none"

\* NextReport when the loop ends at the first report that fails
NextReport_stops_at_failure ==
    /\ b_pc = "loop"
    /\ pc = "done"
    /\ b_done' = Append(b_done, [report |-> Len(b_done) + 1, success |-> result = "True"])
    /\ IF result = "True" /\ Len(b_done) + 1 < b_reports
       THEN /\ StartReport
            /\ UNCHANGED b_pc
       ELSE /\ b_pc' = "finished"
            /\ UNCHANGED <<pc, csv_file, processed, attempt, i, responses, validated,
                           calls, history, diff_log, result>>
    /\ UNCHANGED <<model_name, b_reports, v_vars, e_vars, t_vars>>

\* lines 430-437: process_single_report has returned or raised; the loop
\* counts a success and goes on to the next report, or ends after the last;
\* an exception leaves process_reports_from_supabase
NextReport ==
    /\ b_pc = "loop"
    /\ pc = "done"
    /\ IF result = "raised"
       THEN /\ b_pc' = "raised"
            /\ UNCHANGED <<b_done, pc, csv_file, processed, attempt, i, responses,
                           validated, calls, history, diff_log, result>>
       ELSE /\ b_done' = Append(b_done, [report |-> Len(b_done) + 1,
                                         success |-> result = "True"])
            /\ IF Len(b_done) + 1 < b_reports
               THEN /\ StartReport
                    /\ UNCHANGED b_pc
               ELSE /\ b_pc' = "finished"
                    /\ UNCHANGED <<pc, csv_file, processed, attempt, i, responses,
                                   validated, calls, history, diff_log, result>>
    /\ UNCHANGED <<model_name, b_reports, v_vars, e_vars, t_vars>>

\* lines 426-432: the query returned b_reports reports and the first is handed
\* to process_single_report
BatchInit ==
    /\ ValidatorOff
    /\ ExtractorOff
    /\ EnhancerOff
    /\ b_pc = "loop"
    /\ b_reports = MaxReports
    /\ b_done = <<>>
    /\ pc = "start"
    /\ model_name \in ModelNames
    /\ csv_file \in {NoFile, [kind |-> "existing", rows |-> <<>>]}
    /\ processed = "NULL"
    /\ attempt = 1
    /\ i = 0
    /\ responses = <<>>
    /\ validated = NotValidated
    /\ calls = 0
    /\ history = <<>>
    /\ diff_log = <<>>
    /\ result = "none"

BatchNext ==
    \/ Next
    \/ NextReport

SpecBatch ==
    BatchInit /\ [][BatchNext]_vars

\* ------------------------------------------------------------------------
\* src/src/03b_TableEnhancement_Supabase.py
\* ------------------------------------------------------------------------

DEFAULT_PARAMS ==
    [h1 |-> 40, s1 |-> 0, v1 |-> 210, h2 |-> 50, s2 |-> 30, v2 |-> 255,
     tr1 |-> 1400, linelength1 |-> 79, linegap1 |-> 50, toler1 |-> 10,
     page_number |-> 3, dpi |-> 600]

\* the number of reports the query returns
MaxEnhanceReports == 2

\* the rows of the rendered page that may hold pixels inside the HSV window
GreenRowIndices ==
    {100, 900, 2000}

\* the number of pixels of such a row inside the window: none, and the two
\* counts on either side of a row sum of 500000 (255 * 1960 = 499800)
MatchCounts ==
    {0, 1960, 1961}

\* [height, width] of a page rendered at 600 dpi: A4 upright, A5 on its side
Pages ==
    {[height |-> 7016, width |-> 4961], [height |-> 3496, width |-> 4961]}

\* year and week of a report
ReportMeta ==
    {[year |-> <<"2","0">>, week |-> <<"2","3">>],
     [year |-> <<"2","0">>, week |-> <<"6">>],
     [year |-> <<"2","1">>, week |-> <<"1","0">>]}

min_of(S) ==
    CHOOSE x \in S : \A y \in S : x <= y

max_of(S) ==
    CHOOSE x \in S : \A y \in S : y <= x

\* the rows start:stop of an array of n rows, as Python slices them
slice(start, stop, n) ==
    LET resolve(k) == IF k < 0 THEN max0(k + n) ELSE IF k > n THEN n ELSE k
    IN  [start |-> resolve(start), stop |-> resolve(stop)]

is_empty(rows) ==
    rows.start >= rows.stop

\* detect_green_rows with the fallback taken as the top of the page
detect_green_rows_from_row_0(matching) ==
    LET h_proj_green == [r \in DOMAIN matching |-> 255 * matching[r]]
        green_row_indices == {r \in DOMAIN matching : h_proj_green[r] > 500000}
    IN  IF green_row_indices = {}
        THEN [top_boundary |-> 0, bottom_boundary |-> 4500, warning |-> TRUE]
        ELSE [top_boundary |-> min_of(green_row_indices),
              bottom_boundary |-> max_of(green_row_indices), warning |-> FALSE]

\* lines 121-130; matching[r] is the number of pixels of row r inside the
\* window, the mask holds 255 for each of them and h_proj_green is the row sum
detect_green_rows(matching) ==
    LET h_proj_green == [r \in DOMAIN matching |-> 255 * matching[r]]
        green_row_indices == {r \in DOMAIN matching : h_proj_green[r] > 500000}
    IN  IF green_row_indices = {}
        THEN [top_boundary |-> 800, bottom_boundary |-> 4500, warning |-> TRUE]
        ELSE [top_boundary |-> min_of(green_row_indices),
              bottom_boundary |-> max_of(green_row_indices), warning |-> FALSE]

\* lines 211-221, in hundredths
width_ratio(year, week) ==
    IF year = <<"2","0">>
    THEN IF int(week) >= 25 THEN 56
         ELSE IF int(week) \in {9, 22} THEN 60
         ELSE IF int(week) \in {6} THEN 65
         ELSE IF int(week) \in {7, 8} THEN 57
         ELSE 59
    ELSE 59

\* lines 204-225
crop_window(locals) ==
    [crop_top |-> IF locals.year = <<"2","0">> THEN locals.top_boundary - 390
                  ELSE locals.top_boundary - 360,
     crop_bottom |-> IF locals.year = <<"2","0">>
                     THEN min_of({locals.bottom_boundary + 120, locals.shape.height})
                     ELSE min_of({locals.bottom_boundary + 20, locals.shape.height}),
     new_width2 |-> (locals.shape.width * 7) \div 100,
     new_width |-> (locals.shape.width * width_ratio(locals.year, locals.week)) \div 100]

\* lines 298-324: the status is 'Y' when the commit goes through
update_enhanced_status(enhanced, report_index, committed) ==
    IF committed THEN [enhanced EXCEPT ![report_index] = "Y"] ELSE enhanced

log_record(message, cause) ==
    [report |-> t_index, message |-> message, cause |-> cause]

\* the loop goes on to the next report, or ends after the last
continue ==
    /\ t_index' = t_index + 1
    /\ t_pc' = IF t_index < Len(t_output) THEN "loop" ELSE "finished"
    /\ t_locals' = NoLocals

\* the except clause when it also records the report as enhanced
caught_and_recorded(log, cause) ==
    /\ t_log' = Append(log, log_record("Error enhancing", cause))
    /\ t_enhanced' = update_enhanced_status(t_enhanced, t_index, TRUE)
    /\ continue

\* lines 372-374 and 389-391: an exception of the enhancement is logged with
\* its text and the loop goes on
caught(log, cause) ==
    /\ t_log' = Append(log, log_record("Error enhancing", cause))
    /\ t_enhanced' = t_enhanced
    /\ continue

\* line 356: the folder of the output cannot be made; outside every try
ParentMkdirRaises ==
    /\ t_pc = "loop"
    /\ t_output[t_index].kind = "absent"
    /\ t_pc' = "raised"
    /\ UNCHANGED <<t_index, t_output, t_enhanced, t_locals, t_log>>
    /\ UNCHANGED <<p_vars, v_vars, e_vars, b_vars>>

\* OutputExists when the enhancement is called all the same
OutputExists_enhances_again ==
    /\ t_pc = "loop"
    /\ t_output[t_index].kind # "absent"
    /\ \E meta \in ReportMeta :
          t_locals' = [stage |-> "called", year |-> meta.year, week |-> meta.week]
    /\ t_pc' = "enhance"
    /\ t_log' = Append(t_log, log_record("already exists", "none"))
    /\ UNCHANGED <<t_index, t_output, t_enhanced>>
    /\ UNCHANGED <<p_vars, v_vars, e_vars, b_vars>>

\* lines 357-360: the enhanced image is there
OutputExists ==
    /\ t_pc = "loop"
    /\ t_output[t_index].kind # "absent"
    /\ \E committed \in BOOLEAN :
          t_enhanced' = update_enhanced_status(t_enhanced, t_index, committed)
    /\ t_log' = Append(t_log, log_record("already exists", "none"))
    /\ continue
    /\ UNCHANGED t_output
    /\ UNCHANGED <<p_vars, v_vars, e_vars, b_vars>>

\* lines 392-394: the raw report is neither local nor in B2
RawMissing ==
    /\ t_pc = "loop"
    /\ t_output[t_index].kind = "absent"
    /\ t_log' = Append(t_log, log_record("does not exist", "none"))
    /\ continue
    /\ UNCHANGED <<t_output, t_enhanced>>
    /\ UNCHANGED <<p_vars, v_vars, e_vars, b_vars>>

\* lines 361-368 and 375-385: the raw report is local, or in B2 and fetched
\* (download_file_from_b2 returns None either way, the PDF may be missing)
CallEnhance ==
    /\ t_pc = "loop"
    /\ t_output[t_index].kind = "absent"
    /\ \E meta \in ReportMeta :
          t_locals' = [stage |-> "called", year |-> meta.year, week |-> meta.week]
    /\ t_pc' = "enhance"
    /\ t_log' = Append(t_log, log_record("Enhancing", "none"))
    /\ UNCHANGED <<t_index, t_output, t_enhanced>>
    /\ UNCHANGED <<p_vars, v_vars, e_vars, b_vars>>

\* lines 164-172: fitz.open, doc[page_number], get_pixmap and the conversion
OpenAndRender ==
    /\ t_pc = "enhance"
    /\ t_locals.stage = "called"
    /\ \/ \E cause \in {"open", "page", "render"} :
             /\ caught(t_log, cause)
             /\ UNCHANGED t_output
       \/ \E shape \in Pages, matching \in [GreenRowIndices -> MatchCounts] :
             /\ t_locals' = [stage |-> "rendered",
                             year |-> t_locals.year, week |-> t_locals.week,
                             page_number |->
                                 IF t_locals.year = <<"2","0">> /\ t_locals.week = <<"2","3">>
                                 THEN 4 ELSE DEFAULT_PARAMS.page_number,
                             shape |-> shape, matching |-> matching]
             /\ UNCHANGED <<t_pc, t_index, t_output, t_enhanced, t_log>>
    /\ UNCHANGED <<p_vars, v_vars, e_vars, b_vars>>

\* lines 174-186: the boundaries and the threshold of the table region; what
\* cv2.adaptiveThreshold does with a region of no rows is left open
DetectAndThreshold ==
    /\ t_pc = "enhance"
    /\ t_locals.stage = "rendered"
    /\ LET found == detect_green_rows(t_locals.matching)
           log == IF found.warning
                  THEN Append(t_log, log_record("No green rows detected", "none"))
                  ELSE t_log
           table_region == slice(found.top_boundary, found.bottom_boundary,
                                 t_locals.shape.height)
       IN  \E raises \in BOOLEAN :
              IF is_empty(table_region) /\ raises
              THEN /\ caught(log, "threshold")
                   /\ UNCHANGED t_output
              ELSE /\ t_locals' = [stage |-> "thresholded",
                                   year |-> t_locals.year, week |-> t_locals.week,
                                   shape |-> t_locals.shape,
                                   top_boundary |-> found.top_boundary,
                                   bottom_boundary |-> found.bottom_boundary]
                   /\ t_log' = log
                   /\ UNCHANGED <<t_pc, t_index, t_output, t_enhanced>>
    /\ UNCHANGED <<p_vars, v_vars, e_vars, b_vars>>

\* lines 188-232 and 369-371: the lines, the crop, the file and the status;
\* cv2.cvtColor raises on a crop without pixels; a save that fails leaves no
\* file or a part of it
CropAndSave ==
    /\ t_pc = "enhance"
    /\ t_locals.stage = "thresholded"
    /\ LET window == crop_window(t_locals)
           rows == slice(window.crop_top, window.crop_bottom, t_locals.shape.height)
           columns == slice(window.new_width2, window.new_width, t_locals.shape.width)
       IN  IF is_empty(rows) \/ is_empty(columns)
           THEN /\ caught(t_log, "crop")
                /\ UNCHANGED t_output
           ELSE \E saved \in {"whole", "part", "nothing"}, committed \in BOOLEAN :
                   IF saved = "whole"
                   THEN /\ t_output' = [t_output EXCEPT ![t_index] =
                                [kind |-> "written",
                                 top_boundary |-> t_locals.top_boundary,
                                 bottom_boundary |-> t_locals.bottom_boundary,
                                 rows |-> rows, columns |-> columns]]
                        /\ t_enhanced' = update_enhanced_status(t_enhanced, t_index, committed)
                        /\ t_log' = Append(t_log, log_record("Successfully enhanced", "none"))
                        /\ continue
                   ELSE /\ t_output' = IF saved = "part"
                                       THEN [t_output EXCEPT ![t_index] = [kind |-> "partial"]]
                                       ELSE t_output
                        /\ caught(t_log, "save")
    /\ UNCHANGED <<p_vars, v_vars, e_vars, b_vars>>

\* lines 340-348: the query returned the reports not yet enhanced
EnhanceInit ==
    /\ ValidatorOff
    /\ ExtractorOff
    /\ BatchOff
    /\ ProcessOff
    /\ t_pc = "loop"
    /\ t_index = 1
    /\ t_output \in [1..MaxEnhanceReports -> {[kind |-> "absent"], [kind |-> "existing"]}]
    /\ t_enhanced \in [1..MaxEnhanceReports -> {"N", "NULL"}]
    /\ t_locals = NoLocals
    /\ t_log = <<>>

EnhanceNext ==
    \/ ParentMkdirRaises
    \/ OutputExists
    \/ RawMissing
    \/ CallEnhance
    \/ OpenAndRender
    \/ DetectAndThreshold
    \/ CropAndSave

SpecEnhance ==
    EnhanceInit /\ [][EnhanceNext]_vars

\* ------------------------------------------------------------------------
\* The validator alone: any row list in, one call
\* ------------------------------------------------------------------------

ValidateInit ==
    /\ ProcessOff
    /\ ExtractorOff
    /\ BatchOff
    /\ EnhancerOff
    /\ v_pc = "input"
    /\ \E k \in 0..MaxValRows : v_rows \in [1..k -> ValRows]
    /\ v_result = validate_logical_consistency(<<>>)

CallValidate ==
    /\ v_pc = "input"
    /\ v_pc' = "returned"
    /\ v_result' = validate_logical_consistency(v_rows)
    /\ UNCHANGED <<v_rows, p_vars, e_vars, b_vars, t_vars>>

ValidateNext ==
    CallValidate

SpecValidate ==
    ValidateInit /\ [][ValidateNext]_vars

\* ------------------------------------------------------------------------
\* extract_table_with_gemini alone: any model name, any outcome, one call
\* ------------------------------------------------------------------------

ExtractInit ==
    /\ ProcessOff
    /\ ValidatorOff
    /\ BatchOff
    /\ EnhancerOff
    /\ e_pc = "input"
    /\ e_model_name \in ExtractModelNames
    /\ e_outcome \in Outcomes
    /\ e_result = NotExtracted

CallExtract ==
    /\ e_pc = "input"
    /\ e_pc' = "returned"
    /\ e_result' = extract_table_with_gemini(e_model_name, e_outcome)
    /\ UNCHANGED <<e_model_name, e_outcome, p_vars, v_vars, b_vars, t_vars>>

ExtractNext ==
    CallExtract

SpecExtract ==
    ExtractInit /\ [][ExtractNext]_vars

\* ------------------------------------------------------------------------
\* One attempt on richer rows: both calls have returned and been parsed
\* ------------------------------------------------------------------------

\* longest row list of the two extractions of the attempt
MaxAttemptRows == 2

\* one TableRow as the dictionary model_dump(by_alias=True) gives
TableRow(States, Suspected, Confirmed, Probable, HCW, Deaths) ==
    [States |-> States, Suspected |-> Suspected, Confirmed |-> Confirmed,
     Probable |-> Probable, HCW |-> HCW, Deaths |-> Deaths]

\* a state row without and with Probable and HCW, a state row holding only a
\* Probable value, a state row with every other cell blank, a Total row and
\* a row without a state name
AttemptRows ==
    {TableRow(Edo, <<"2">>, <<"2">>, <<>>, <<>>, <<"1">>),
     TableRow(Edo, <<"2">>, <<"2">>, <<"1">>, <<"3">>, <<"1">>),
     TableRow(Edo, <<>>, <<>>, <<"1">>, <<>>, <<>>),
     TableRow(Edo, <<>>, <<>>, <<>>, <<>>, <<>>),
     TableRow(Total, <<"2">>, <<"2">>, <<>>, <<>>, <<"1">>),
     TableRow(<<>>, <<"2">>, <<"2">>, <<>>, <<>>, <<"1">>)}

AttemptLists ==
    UNION {[1..k -> AttemptRows] : k \in 0..MaxAttemptRows}

\* process_single_report at line 339 of its first attempt, both calls having
\* returned a response with rows
AttemptInit ==
    /\ ValidatorOff
    /\ ExtractorOff
    /\ BatchOff
    /\ EnhancerOff
    /\ pc = "evaluate"
    /\ model_name = "gemini-2.0-flash"
    /\ csv_file = NoFile
    /\ processed = "NULL"
    /\ attempt = 1
    /\ i = 2
    /\ \E rows_1 \in AttemptLists, rows_2 \in AttemptLists :
          responses = <<[kind |-> "rows", rows |-> rows_1],
                        [kind |-> "rows", rows |-> rows_2]>>
    /\ validated = NotValidated
    /\ calls = 2
    /\ history = <<>>
    /\ diff_log = <<>>
    /\ result = "none"

AttemptNext ==
    \/ ValidateResults
    \/ OutputsIdentical
    \/ OutputsDiffer

SpecAttempt ==
    AttemptInit /\ [][AttemptNext]_vars

\* ------------------------------------------------------------------------
\* One attempt on rows that differ in the spelling of the state name
\* ------------------------------------------------------------------------

\* longest row list of the two extractions of the attempt
MaxCompareRows == 2

\* one state spelled with a hyphen and with a capital and a space, and a
\* second state, once more with another Suspected count
CompareRows ==
    {TableRow(<<"a","-","b">>, <<"2">>, <<"2">>, <<>>, <<>>, <<"1">>),
     TableRow(<<"A"," ","b">>, <<"2">>, <<"2">>, <<>>, <<>>, <<"1">>),
     TableRow(<<"a"," ","c">>, <<"2">>, <<"2">>, <<>>, <<>>, <<"1">>),
     TableRow(<<"a"," ","c">>, <<"3">>, <<"2">>, <<>>, <<>>, <<"1">>)}

CompareLists ==
    UNION {[1..k -> CompareRows] : k \in 0..MaxCompareRows}

\* process_single_report at line 339 of its first attempt, both calls having
\* returned a response with rows
CompareInit ==
    /\ ValidatorOff
    /\ ExtractorOff
    /\ BatchOff
    /\ EnhancerOff
    /\ pc = "evaluate"
    /\ model_name = "gemini-2.0-flash"
    /\ csv_file = NoFile
    /\ processed = "NULL"
    /\ attempt = 1
    /\ i = 2
    /\ \E rows_1 \in CompareLists, rows_2 \in CompareLists :
          responses = <<[kind |-> "rows", rows |-> rows_1],
                        [kind |-> "rows", rows |-> rows_2]>>
    /\ validated = NotValidated
    /\ calls = 2
    /\ history = <<>>
    /\ diff_log = <<>>
    /\ result = "none"

SpecCompare ==
    CompareInit /\ [][AttemptNext]_vars

\* ------------------------------------------------------------------------
\* The validator alone on longer lists of a few rows
\* ------------------------------------------------------------------------

\* longest of these lists
MaxListRows == 3

\* a consistent state row, one with Suspected below Confirmed, one with a
\* negative count, and a Total row
ListRows ==
    {TableRow(Edo, <<"1">>, <<"1">>, <<>>, <<>>, <<"1">>),
     TableRow(Edo, <<"0">>, <<"1">>, <<>>, <<>>, <<"1">>),
     TableRow(Edo, <<"-","1">>, <<"0">>, <<>>, <<>>, <<"0">>),
     TableRow(Total, <<"0">>, <<"1">>, <<>>, <<>>, <<"1">>)}

ValidateListInit ==
    /\ ProcessOff
    /\ ExtractorOff
    /\ BatchOff
    /\ EnhancerOff
    /\ v_pc = "input"
    /\ \E k \in 0..MaxListRows : v_rows \in [1..k -> ListRows]
    /\ v_result = validate_logical_consistency(<<>>)

SpecValidateList ==
    ValidateListInit /\ [][ValidateNext]_vars

\* ------------------------------------------------------------------------
\* Properties: the reconciliation loop
\* ------------------------------------------------------------------------

\* every row of a normalized row list, restricted to States, Suspected,
\* Confirmed and Deaths
restricted(normalized) ==
    [k \in 1..Len(normalized) |-> relevant_columns(normalized[k])]

rows_are_valid(rows) ==
    validate_logical_consistency(rows).is_valid

last_attempt ==
    history[Len(history)]

\* the attempt recorded in e validated two valid row lists that disagree
valid_and_disagreeing(e) ==
    /\ Len(e.parsed) = 2
    /\ e.validated.is_valid_1
    /\ e.validated.is_valid_2
    /\ restricted(e.validated.normalized_1) # restricted(e.validated.normalized_2)

\* C1: whenever the CSV has been written, the two row lists of that attempt
\* are equal on States, Suspected, Confirmed and Deaths in every row of their
\* normalized forms.
C1_PersistedOnlyWhenAllRowsAgree ==
    (pc = "done" /\ csv_file.kind = "written")
        => restricted(validated.normalized_1) = restricted(validated.normalized_2)

\* C2: when every attempt of a finished run had two successful calls returning
\* valid row lists that disagree, the run made max_attempts attempts of two
\* calls each and returned False.
C2_DisagreementExhaustsAttempts ==
    (/\ pc = "done"
     /\ history # <<>>
     /\ \A k \in 1..Len(history) : valid_and_disagreeing(history[k]))
        => /\ Len(history) = max_attempts
           /\ calls = 2 * max_attempts
           /\ result = "False"

\* the two row lists being evaluated are both invalid
both_invalid ==
    /\ pc = "evaluate"
    /\ Len(parsed_data) = 2
    /\ ~rows_are_valid(parsed_data[1])
    /\ ~rows_are_valid(parsed_data[2])

\* the step starts the next attempt: the counter grows by one and the two
\* calls are made afresh
starts_next_attempt ==
    /\ attempt' = attempt + 1
    /\ pc' = "extract"
    /\ i' = 0
    /\ responses' = <<>>
    /\ result' = "none"

\* C3: a step taken when both row lists of an attempt are invalid and
\* attempt < max_attempts discards both and starts the next attempt; it does
\* not end the run.
C3_BothInvalidRetries ==
    [][(both_invalid /\ attempt < max_attempts) => starts_next_attempt]_vars

\* the comparison step is about to find the two normalized row lists unequal
disagree ==
    /\ pc = "compare"
    /\ restricted(validated.normalized_1) # restricted(validated.normalized_2)

\* C4: a step taken when the two row lists of attempt k disagree and
\* k < max_attempts starts attempt k + 1.
C4_DisagreementRetries ==
    [][(disagree /\ attempt < max_attempts) => starts_next_attempt]_vars

\* C7 as documented: when the two row lists of the first attempt are valid and
\* agree, the run ends after exactly two calls with the CSV written and the
\* result True.
first_attempt_agrees ==
    /\ history # <<>>
    /\ Len(history[1].parsed) = 2
    /\ history[1].validated.is_valid_1
    /\ history[1].validated.is_valid_2
    /\ restricted(history[1].validated.normalized_1)
           = restricted(history[1].validated.normalized_2)

C7_AcceptedAndPersisted ==
    first_attempt_agrees
        => /\ pc = "done"
           /\ calls = 2
           /\ csv_file.kind = "written"
           /\ result = "True"

\* C7: when the two row lists of the first attempt are valid and agree, the
\* run ends in attempt 1 after exactly two calls; the comparison holds and the
\* first list is handed to the CSV writer; the result is True with the CSV
\* written, or, when the CSV cannot be written, False with processed not set.
C7_AcceptedOnFirstAttempt ==
    first_attempt_agrees
        => /\ pc = "done"
           /\ calls = 2
           /\ Len(history) = 1
           /\ \/ /\ history[1].how = "saved"
                 /\ csv_file = [kind |-> "written",
                                rows |-> save_extracted_data_to_csv(
                                             history[1].parsed[1], report.year, report.week)]
                 /\ result = "True"
              \/ /\ history[1].how = "not_saved"
                 /\ csv_file.kind \in {"absent", "partial"}
                 /\ processed # "Y"
                 /\ result = "False"

C7_Witness ==
    /\ pc = "done"
    /\ first_attempt_agrees
    /\ history[1].parsed[1] # history[1].parsed[2]
    /\ csv_file.kind = "written"
    /\ Len(csv_file.rows) = 2
    /\ result = "True"

\* validate_logical_consistency found exactly one of the two row lists valid
exactly_one_valid(v) ==
    v.is_valid_1 # v.is_valid_2

the_valid_rows(parsed, v) ==
    IF v.is_valid_1 THEN parsed[1] ELSE parsed[2]

\* C8: when exactly one of the two row lists of an attempt is valid, both
\* iterations go on with the valid list, the comparison holds, the run ends in
\* that attempt on the accepting branch, and a written CSV holds the valid
\* list's rows.
C8_OneValidIsUsed ==
    /\ (pc = "compare" /\ exactly_one_valid(validated))
          => /\ validated.dict_rows_1 = the_valid_rows(parsed_data, validated)
             /\ validated.dict_rows_2 = the_valid_rows(parsed_data, validated)
             /\ validated.comparison_1 = validated.comparison_2
    /\ (/\ pc = "done"
        /\ history # <<>>
        /\ Len(last_attempt.parsed) = 2
        /\ exactly_one_valid(last_attempt.validated))
          => /\ last_attempt.how \in {"saved", "not_saved"}
             /\ (last_attempt.how = "saved") <=> (csv_file.kind = "written")
             /\ csv_file.kind = "written"
                   => csv_file.rows = save_extracted_data_to_csv(
                                          the_valid_rows(last_attempt.parsed,
                                                         last_attempt.validated),
                                          report.year, report.week)

C8_Witness ==
    /\ pc = "done"
    /\ history # <<>>
    /\ Len(last_attempt.parsed) = 2
    /\ exactly_one_valid(last_attempt.validated)
    /\ ~last_attempt.validated.is_valid_1
    /\ last_attempt.parsed[1] # <<>>
    /\ csv_file.kind = "written"
    /\ csv_file.rows # <<>>

\* a call of the attempt failed, or a response could not be parsed
attempt_failed ==
    /\ pc = "evaluate"
    /\ (Len(responses) < 2 \/ Len(parsed_data) < 2)

all_attempts_failed ==
    /\ pc = "done"
    /\ Len(history) = max_attempts
    /\ \A k \in 1..Len(history) : history[k].how \in {"call_failed", "parse_failed"}

\* C9: a step taken after a call of the attempt failed or a response could not
\* be parsed adds one to the attempt counter, validates and compares nothing,
\* persists nothing, and starts the next attempt while attempt < max_attempts;
\* a run whose max_attempts attempts all failed this way returned False with
\* nothing persisted.
C9_FailedAttemptRetries ==
    /\ [][attempt_failed
            => /\ attempt' = attempt + 1
               /\ UNCHANGED <<validated, diff_log, csv_file, processed>>
               /\ IF attempt < max_attempts
                  THEN starts_next_attempt
                  ELSE pc' = "done" /\ result' = "False"]_vars
    /\ [](all_attempts_failed
            => /\ result = "False"
               /\ csv_file = NoFile
               /\ processed # "Y"
               /\ validated = NotValidated)

C9_Witness ==
    /\ all_attempts_failed
    /\ calls = 2 * max_attempts
    /\ \E k \in 1..Len(history) : history[k].how = "call_failed"
    /\ \E k \in 1..Len(history) : history[k].how = "parse_failed"
    /\ result = "False"

\* the comparison of some attempt of the run held
compared_equal ==
    /\ validated # NotValidated
    /\ validated.comparison_1 = validated.comparison_2

\* C10 as documented: a run that ended without a comparison that held wrote
\* no CSV and left processed other than 'Y'.
C10_NothingWithoutAgreement ==
    (pc = "done" /\ ~compared_equal)
        => /\ csv_file.kind \notin {"written", "partial"}
           /\ processed # "Y"

\* C10: a run that ended without a comparison that held wrote no CSV, and set
\* processed to 'Y' only when the CSV already existed when the run began and
\* no extraction call was made.
C10_NothingWithoutAgreementUnlessExisting ==
    (pc = "done" /\ ~compared_equal)
        => /\ csv_file.kind \notin {"written", "partial"}
           /\ processed = "Y" => (csv_file.kind = "existing" /\ calls = 0)

C10_Witness ==
    /\ pc = "done"
    /\ ~compared_equal
    /\ history # <<>>
    /\ last_attempt.how = "differ"
    /\ csv_file = NoFile
    /\ processed # "Y"

\* ------------------------------------------------------------------------
\* Properties: validate_logical_consistency
\* ------------------------------------------------------------------------

count_fields ==
    {"Suspected", "Confirmed", "Deaths"}

\* the text is a non-negative integer written in digits
is_count(text) ==
    /\ text # <<>>
    /\ \A k \in 1..Len(text) : text[k] \in DOMAIN DigitValue

\* a row with a state name that is not the Total row
is_state_row(row) ==
    /\ strip(row.States) # <<>>
    /\ ~is_total_row(row)

\* C5: when every count of the input is a non-negative integer, every
\* returned row of a state has Suspected >= Confirmed >= Deaths.
C5_ReturnedRowsAreOrdered ==
    (/\ v_pc = "returned"
     /\ \A k \in 1..Len(v_rows) : \A f \in count_fields : is_count(v_rows[k][f]))
        => \A k \in 1..Len(v_result.validated_rows) :
              is_state_row(v_result.validated_rows[k])
                 => /\ int(v_result.validated_rows[k].Suspected)
                          >= int(v_result.validated_rows[k].Confirmed)
                    /\ int(v_result.validated_rows[k].Confirmed)
                          >= int(v_result.validated_rows[k].Deaths)

\* the row has an unparseable numeric field, a negative value,
\* Suspected < Confirmed or Confirmed < Deaths
row_violates(row) ==
    \/ \E f \in count_fields : ~field_parses(row[f])
    \/ \E f \in count_fields : field_value(row[f]) < 0
    \/ field_value(row.Suspected) < field_value(row.Confirmed)
    \/ field_value(row.Confirmed) < field_value(row.Deaths)

\* C6 as documented: is_valid is False exactly when some input row other than
\* the Total row violates a rule.
C6_InvalidIffSomeNonTotalRowViolates ==
    v_pc = "returned"
        => (~v_result.is_valid
               <=> \E k \in 1..Len(v_rows) :
                      ~is_total_row(v_rows[k]) /\ row_violates(v_rows[k]))

\* C6: is_valid is False exactly when some input row that has a state name and
\* is not the Total row violates a rule; rows without a state name are skipped.
C6_InvalidIffSomeStateRowViolates ==
    v_pc = "returned"
        => (~v_result.is_valid
               <=> \E k \in 1..Len(v_rows) :
                      is_state_row(v_rows[k]) /\ row_violates(v_rows[k]))

C6_Witness ==
    /\ v_pc = "returned"
    /\ ~v_result.is_valid
    /\ \E k \in 1..Len(v_rows) :
          /\ is_state_row(v_rows[k])
          /\ \A f \in count_fields : is_count(v_rows[k][f])
          /\ int(v_rows[k].Suspected) >= int(v_rows[k].Confirmed)
          /\ int(v_rows[k].Confirmed) < int(v_rows[k].Deaths)

\* ------------------------------------------------------------------------
\* Properties: what is compared and what is persisted
\* ------------------------------------------------------------------------

\* the finished attempt validated two valid row lists that agree
valid_and_agreeing(e) ==
    /\ Len(e.parsed) = 2
    /\ e.validated.is_valid_1
    /\ e.validated.is_valid_2
    /\ restricted(e.validated.normalized_1) = restricted(e.validated.normalized_2)

\* the row has a state name and is the Total row or has some other cell
is_kept(row) ==
    /\ row.States # <<>>
    /\ \/ row.States = Total
       \/ \E f \in {"Suspected", "Confirmed", "Probable", "HCW", "Deaths"} :
             row[f] # <<>>

\* the six cells of a persisted row
six_cells(row) ==
    [f \in {"States", "Suspected", "Confirmed", "Probable", "HCW", "Deaths"} |-> row[f]]

\* C11: when both row lists are valid and agree and the CSV is written, its
\* rows are the first list's rows, cell for cell and in the first list's
\* order, without the rows that have no state name and the rows other than
\* Total whose other cells are all blank.
C11_FirstRowsPersistedAsExtracted ==
    (/\ pc = "done"
     /\ history # <<>>
     /\ valid_and_agreeing(last_attempt)
     /\ csv_file.kind = "written")
        => LET kept == SelectSeq(last_attempt.parsed[1], is_kept)
           IN  /\ Len(csv_file.rows) = Len(kept)
               /\ \A k \in 1..Len(kept) : six_cells(csv_file.rows[k]) = kept[k]

C11_Witness ==
    /\ pc = "done"
    /\ history # <<>>
    /\ valid_and_agreeing(last_attempt)
    /\ last_attempt.parsed[1] # last_attempt.parsed[2]
    /\ csv_file.kind = "written"
    /\ Len(csv_file.rows) = 1
    /\ Len(last_attempt.parsed[1]) = 2
    /\ csv_file.rows[1].Probable # <<>>

\* C12: in a written CSV a Total row is the last row.
C12_TotalRowLast ==
    (pc = "done" /\ csv_file.kind = "written")
        => \A k \in 1..Len(csv_file.rows) :
              is_total_row(csv_file.rows[k]) => k = Len(csv_file.rows)

\* the two row lists are equal row by row on States, Suspected, Confirmed and
\* Deaths
equal_on_compared_fields(rows_1, rows_2) ==
    /\ Len(rows_1) = Len(rows_2)
    /\ \A k \in 1..Len(rows_1) : relevant_columns(rows_1[k]) = relevant_columns(rows_2[k])

\* C13: two valid row lists that are equal on States, Suspected, Confirmed and
\* Deaths are judged to agree by the comparison, whatever their Probable and
\* HCW cells.
C13_ProbableAndHCWIgnored ==
    (/\ pc = "compare"
     /\ validated.is_valid_1
     /\ validated.is_valid_2
     /\ equal_on_compared_fields(parsed_data[1], parsed_data[2]))
        => validated.comparison_1 = validated.comparison_2

\* ------------------------------------------------------------------------
\* Properties: extract_table_with_gemini
\* ------------------------------------------------------------------------

\* C14: a call that could open the image has sent exactly one request,
\* whatever the model name, and when the service answered it returned success
\* with the response.
C14_OneRequestForEveryModel ==
    (e_pc = "returned" /\ e_outcome.kind # "image_error")
        => /\ e_result.requests = 1
           /\ e_outcome.kind \in {"no_parsed", "rows"}
                 => (e_result.success /\ e_result.response = e_outcome)

\* ------------------------------------------------------------------------
\* Properties: exceptions and the batch
\* ------------------------------------------------------------------------

accepted_and_persisted ==
    result = "True" /\ csv_file.kind = "written"

\* the image is reported as failed
reported_failed ==
    result = "False" /\ csv_file.kind # "written"

\* C16: a run that reached the extraction ends after at most max_attempts
\* attempts and 2 * max_attempts calls, and either the rows are accepted and
\* persisted or the image is reported as failed.
C16_EndsAcceptedOrFailed ==
    (pc = "done" /\ calls > 0)
        => /\ calls <= 2 * max_attempts
           /\ Len(history) <= max_attempts
           /\ accepted_and_persisted \/ reported_failed

\* ------------------------------------------------------------------------
\* Properties: the values of the validated rows
\* ------------------------------------------------------------------------

\* C17: in the returned rows every non-blank Suspected, Confirmed and Deaths
\* value of a row other than the Total row is a non-negative integer written
\* in digits.
C17_ReturnedCountsAreNonNegativeIntegers ==
    v_pc = "returned"
        => \A k \in 1..Len(v_result.validated_rows) :
              LET row == v_result.validated_rows[k]
              IN  ~is_total_row(row)
                     => \A field \in count_fields :
                           strip(row[field]) = <<>> \/ is_count(row[field])

\* ------------------------------------------------------------------------
\* Properties: the enhancement stage
\* ------------------------------------------------------------------------

\* the log holds a record of this message for the report
logged(report_index, message) ==
    \E j \in 1..Len(t_log) :
        t_log[j].report = report_index /\ t_log[j].message = message

\* the enhancement of the report failed with one of these causes
failed_with(report_index, causes) ==
    \E j \in 1..Len(t_log) :
        /\ t_log[j].report = report_index
        /\ t_log[j].message = "Error enhancing"
        /\ t_log[j].cause \in causes

\* C18: when the PDF cannot be opened or the page cannot be rendered, no
\* output file is written, not even a part of one, the enhanced status of the
\* report is not set to 'Y', and the loop has gone on to the next report.
C18_UnreadablePdfLeavesNothing ==
    \A r \in 1..Len(t_output) :
        failed_with(r, {"open", "page", "render"})
            => /\ t_output[r].kind = "absent"
               /\ t_enhanced[r] # "Y"
               /\ t_index > r
               /\ r = Len(t_output) => t_pc = "finished"

C18_Witness ==
    /\ t_pc = "finished"
    /\ failed_with(1, {"open"})
    /\ logged(2, "Successfully enhanced")
    /\ t_output[2].kind = "written"
    /\ t_enhanced[2] = "Y"

\* C19: a report whose enhanced image is there is not enhanced again and the
\* file stays as it is; the step changes nothing but the enhanced status of
\* that report, which becomes 'Y' when the database takes the update.
C19_ExistingOutputLeftAlone ==
    /\ [][(t_pc = "loop" /\ t_output[t_index].kind # "absent")
            => /\ t_output' = t_output
               /\ t_pc' \in {"loop", "finished"}
               /\ t_locals' = NoLocals
               /\ t_index' = t_index + 1
               /\ t_enhanced' \in {t_enhanced, [t_enhanced EXCEPT ![t_index] = "Y"]}]_vars
    /\ [](\A r \in 1..Len(t_output) :
            logged(r, "already exists")
                => /\ t_output[r].kind = "existing"
                   /\ ~logged(r, "Enhancing")
                   /\ ~logged(r, "Successfully enhanced"))

C19_Witness ==
    /\ t_pc = "finished"
    /\ logged(1, "already exists")
    /\ t_enhanced[1] = "Y"
    /\ t_output[1].kind = "existing"
    /\ logged(2, "already exists")
    /\ t_enhanced[2] # "Y"

\* the rows whose sum over the mask is above the threshold
clearing_rows(matching) ==
    {r \in DOMAIN matching : 255 * matching[r] > 500000}

\* C20: detect_green_rows gives (800, 4500) when no row clears the threshold
\* and the first and last clearing row otherwise; with no clearing row the
\* enhancement goes on: the threshold step does not fail, and an image that is
\* written is cropped from 800 and 4500.
C20_FallbackBoundaries ==
    /\ [][(t_pc = "enhance" /\ t_locals.stage = "rendered")
            => LET clearing == clearing_rows(t_locals.matching)
               IN  IF clearing = {}
                   THEN /\ t_locals'.stage = "thresholded"
                        /\ t_locals'.top_boundary = 800
                        /\ t_locals'.bottom_boundary = 4500
                        /\ t_pc' = "enhance"
                   ELSE t_locals'.stage = "thresholded"
                           => /\ t_locals'.top_boundary \in clearing
                              /\ t_locals'.bottom_boundary \in clearing
                              /\ \A r \in clearing :
                                    /\ t_locals'.top_boundary <= r
                                    /\ r <= t_locals'.bottom_boundary]_vars
    /\ [](\A r \in 1..Len(t_output) :
            logged(r, "No green rows detected")
                => /\ ~failed_with(r, {"threshold", "crop"})
                   /\ t_output[r].kind = "written"
                        => /\ t_output[r].top_boundary = 800
                           /\ t_output[r].bottom_boundary = 4500
                           /\ t_output[r].rows.start \in {800 - 360, 800 - 390}
                           /\ t_output[r].rows.stop \in
                                 {4500 + 20, 4500 + 120} \cup {p.height : p \in Pages})

C20_Witness ==
    /\ logged(1, "No green rows detected")
    /\ t_output[1].kind = "written"
    /\ t_output[1].rows = [start |-> 440, stop |-> 4520]
    /\ logged(2, "Successfully enhanced")
    /\ ~logged(2, "No green rows detected")
    /\ t_output[2].kind = "written"
    /\ t_output[2].top_boundary = 900
    /\ t_output[2].bottom_boundary = 2000

\* ------------------------------------------------------------------------
\* Properties: the Total row in the validator
\* ------------------------------------------------------------------------

\* the state name reads Total, whatever the letter case and the blanks around
named_total(row) ==
    lower(strip(row.States)) = <<"t","o","t","a","l">>

\* C21: a row named Total, in any letter case and with blanks around the
\* name, is returned as it came and no message is recorded for it, whatever
\* its counts; a list of Total rows only is valid.
C21_TotalRowUntouched ==
    v_pc = "returned"
        => /\ \A k \in 1..Len(v_rows) :
                 named_total(v_rows[k])
                    => /\ v_result.validated_rows[k] = v_rows[k]
                       /\ \A m \in 1..Len(v_result.error_messages) :
                             v_result.error_messages[m].row # k
           /\ (\A k \in 1..Len(v_rows) : named_total(v_rows[k])) => v_result.is_valid
           /\ v_result.is_valid <=> v_result.error_messages = <<>>

C21_Witness ==
    /\ v_pc = "returned"
    /\ Len(v_rows) = 1
    /\ v_rows[1].States = TotalSpelled
    /\ v_rows[1].Suspected = <<"0">>
    /\ v_rows[1].Confirmed = <<"-","1">>
    /\ v_rows[1].Deaths = <<"x">>
    /\ v_result.is_valid

\* ------------------------------------------------------------------------
\* Properties: the threshold of the table-region locator
\* ------------------------------------------------------------------------

\* the rows with more than 500000 pixels inside the window
rows_over_500000_pixels(matching) ==
    {r \in DOMAIN matching : matching[r] > 500000}

\* C22: the boundaries come from the rows that hold more than 500000 pixels
\* inside the window: without such a row they are 800 and 4500, otherwise
\* the first and the last such row.
C22_BoundaryRowsByPixelCount ==
    [][(t_pc = "enhance" /\ t_locals.stage = "rendered" /\ t_locals'.stage = "thresholded")
         => LET counted == rows_over_500000_pixels(t_locals.matching)
            IN  IF counted = {}
                THEN /\ t_locals'.top_boundary = 800
                     /\ t_locals'.bottom_boundary = 4500
                ELSE /\ t_locals'.top_boundary = min_of(counted)
                     /\ t_locals'.bottom_boundary = max_of(counted)]_vars

\* ------------------------------------------------------------------------
\* Properties: the repairs of the validator
\* ------------------------------------------------------------------------

\* the three counts of a state row parse (a blank cell parses as 0)
counts_parse(row) ==
    /\ is_state_row(row)
    /\ \A field \in count_fields : field_parses(row[field])

\* the count of the cell, a negative one taken as 0
clamped(row, field) ==
    max0(field_value(row[field]))

has_negative(row) ==
    \E field \in count_fields : field_value(row[field]) < 0

\* the cell takes part in a violation of the row
involved(row, field) ==
    \/ field_value(row[field]) < 0
    \/ field = "Suspected" /\ clamped(row, "Suspected") < clamped(row, "Confirmed")
    \/ field = "Confirmed" /\ clamped(row, "Confirmed") < clamped(row, "Deaths")

\* Suspected below Confirmed is repaired with the Confirmed count and
\* Confirmed below Deaths with the Deaths count
repaired(row, out) ==
    /\ clamped(row, "Suspected") < clamped(row, "Confirmed")
          => out.Suspected = str(clamped(row, "Confirmed"))
    /\ clamped(row, "Confirmed") < clamped(row, "Deaths")
          => out.Confirmed = str(clamped(row, "Deaths"))
    /\ out.States = row.States /\ out.Probable = row.Probable /\ out.HCW = row.HCW

\* C23 as stated: for a state row whose counts parse, the two repairs are
\* made and every cell that takes part in no violation is returned unchanged.
C23_RepairsAndNothingElse ==
    v_pc = "returned"
        => \A k \in 1..Len(v_rows) :
              counts_parse(v_rows[k])
                 => /\ repaired(v_rows[k], v_result.validated_rows[k])
                    /\ \A field \in count_fields :
                          ~involved(v_rows[k], field)
                             => v_result.validated_rows[k][field] = v_rows[k][field]

\* C23, amended: the two repairs are made; in a row without a negative count
\* every cell that is not repaired is returned unchanged; in a row with a
\* negative count every cell that is not repaired is rewritten as the text of
\* its count, a negative count as 0 and a blank cell as 0.
C23_RepairsAndRewriteOnNegative ==
    v_pc = "returned"
        => \A k \in 1..Len(v_rows) :
              counts_parse(v_rows[k])
                 => LET row == v_rows[k]
                        out == v_result.validated_rows[k]
                        kept(field) ==
                            out[field] = IF has_negative(row) THEN str(clamped(row, field))
                                         ELSE row[field]
                    IN  /\ repaired(row, out)
                        /\ clamped(row, "Suspected") >= clamped(row, "Confirmed")
                              => kept("Suspected")
                        /\ clamped(row, "Confirmed") >= clamped(row, "Deaths")
                              => kept("Confirmed")
                        /\ kept("Deaths")

C23_Witness ==
    /\ v_pc = "returned"
    /\ Len(v_rows) = 1
    /\ v_rows[1].States = Edo
    /\ v_rows[1].Suspected = <<>>
    /\ v_rows[1].Confirmed = <<"1">>
    /\ v_rows[1].Deaths = <<"-","1">>
    /\ v_result.validated_rows[1].Suspected = <<"1">>
    /\ v_result.validated_rows[1].Confirmed = <<"1">>
    /\ v_result.validated_rows[1].Deaths = <<"0">>

\* ------------------------------------------------------------------------
\* Properties: what the agreement check is blind to
\* ------------------------------------------------------------------------

\* the row with its state name in small letters and hyphens as spaces
respelled(row) ==
    [row EXCEPT !.States = replace_hyphen(lower(row.States))]

\* the two lists hold the same rows up to their order, the letter case and
\* the hyphens of the state names
same_rows_respelled(rows_1, rows_2) ==
    /\ Len(rows_1) = Len(rows_2)
    /\ \E p \in Permutations(1..Len(rows_1)) :
          \A k \in 1..Len(rows_1) : respelled(rows_1[k]) = respelled(rows_2[p[k]])

\* the attempt judged the two extractions equal
judged_equal(e) ==
    e.how \in {"saved", "not_saved"}

\* C24: two extractions that hold the same rows up to the order of the rows,
\* the letter case and hyphen or space in the state names are judged equal.
C24_RespelledRowsJudgedEqual ==
    \A k \in 1..Len(history) :
        (/\ Len(history[k].parsed) = 2
         /\ same_rows_respelled(history[k].parsed[1], history[k].parsed[2]))
            => judged_equal(history[k])

\* ------------------------------------------------------------------------
\* Properties: two invalid extractions on the last attempt
\* ------------------------------------------------------------------------

\* the attempt recorded in e went on to the comparison with two invalid lists
both_invalid_compared(e) ==
    /\ Len(e.parsed) = 2
    /\ ~e.validated.short
    /\ ~e.validated.is_valid_1
    /\ ~e.validated.is_valid_2

\* the rows of the list as validate_logical_consistency repairs them
repaired_rows(rows) ==
    validate_logical_consistency(rows).validated_rows

\* the form of a list the comparison is made on
comparison_form(rows) ==
    filter_comparison_columns(normalize_state_names(sort_table_rows(rows)))

\* C25: two invalid lists are compared only on the last attempt; the
\* comparison is made on the two repaired lists, and when it holds and the CSV
\* is written its rows are the repaired rows of the first list.
C25_RepairedRowsOnLastAttempt ==
    (pc = "done" /\ history # <<>> /\ both_invalid_compared(last_attempt))
        => LET e == last_attempt
               repaired_1 == repaired_rows(e.parsed[1])
               repaired_2 == repaired_rows(e.parsed[2])
               kept == SelectSeq(repaired_1, is_kept)
           IN  /\ Len(history) = max_attempts
               /\ e.validated.comparison_1 = comparison_form(repaired_1)
               /\ e.validated.comparison_2 = comparison_form(repaired_2)
               /\ judged_equal(e) <=> comparison_form(repaired_1) = comparison_form(repaired_2)
               /\ csv_file.kind = "written"
                     => /\ judged_equal(e)
                        /\ Len(csv_file.rows) = Len(kept)
                        /\ \A k \in 1..Len(kept) : six_cells(csv_file.rows[k]) = kept[k]

C25_Witness ==
    /\ pc = "done"
    /\ history # <<>>
    /\ both_invalid_compared(last_attempt)
    /\ last_attempt.parsed[1] # last_attempt.parsed[2]
    /\ csv_file.kind = "written"
    /\ Len(csv_file.rows) = 1
    /\ csv_file.rows[1].Suspected # last_attempt.parsed[1][1].Suspected

\* ------------------------------------------------------------------------
\* Properties: the differences log
\* ------------------------------------------------------------------------

\* the record tells the image, the attempt, the rows that differ at the same
\* index and the rows one list has beyond the other
is_record_of_attempt(rec) ==
    LET rows_1 == validated.normalized_1
        rows_2 == validated.normalized_2
        shorter == IF Len(rows_1) < Len(rows_2) THEN Len(rows_1) ELSE Len(rows_2)
        differing == {k \in 1..shorter : rows_1[k] # rows_2[k]}
    IN  /\ rec.name = report.enhanced_name
        /\ rec.attempt = attempt
        /\ {rec.rows[k].row : k \in 1..Len(rec.rows)} = differing
        /\ Len(rec.rows) = Cardinality(differing)
        /\ \A k \in 1..Len(rec.rows) :
              /\ rec.rows[k].iteration_1 = rows_1[rec.rows[k].row]
              /\ rec.rows[k].iteration_2 = rows_2[rec.rows[k].row]
        /\ Len(rec.additional_1) = Len(rows_1) - shorter
        /\ \A k \in 1..Len(rec.additional_1) : rec.additional_1[k] = rows_1[shorter + k]
        /\ Len(rec.additional_2) = Len(rows_2) - shorter
        /\ \A k \in 1..Len(rec.additional_2) : rec.additional_2[k] = rows_2[shorter + k]

\* the log is the old log with one record of the attempt after it
one_record_appended ==
    /\ Len(diff_log') = Len(diff_log) + 1
    /\ SubSeq(diff_log', 1, Len(diff_log)) = diff_log
    /\ is_record_of_attempt(diff_log'[Len(diff_log')])

has_message(k) ==
    \E m \in 1..Len(v_result.error_messages) : v_result.error_messages[m].row = k

\* C27: the list handed to validate_logical_consistency is left as it was;
\* the returned list has as many rows, the row at each position being the
\* input row of that position, changed only in its counts and only when a
\* message is recorded for it; a valid result returns rows equal to the input.
C27_SameRowsSameOrder ==
    /\ [][v_rows' = v_rows]_vars
    /\ [](v_pc = "returned"
            => /\ Len(v_result.validated_rows) = Len(v_rows)
               /\ \A k \in 1..Len(v_rows) :
                     /\ v_result.validated_rows[k].States = v_rows[k].States
                     /\ v_result.validated_rows[k].Probable = v_rows[k].Probable
                     /\ v_result.validated_rows[k].HCW = v_rows[k].HCW
                     /\ v_result.validated_rows[k] # v_rows[k] => has_message(k)
               /\ v_result.is_valid => v_result.validated_rows = v_rows)

C27_Witness ==
    /\ v_pc = "returned"
    /\ Len(v_rows) = 3
    /\ is_total_row(v_rows[1])
    /\ v_rows[2] # v_rows[3]
    /\ ~v_result.is_valid
    /\ v_result.validated_rows[1] = v_rows[1]
    /\ v_result.validated_rows[2] = v_rows[2]
    /\ v_result.validated_rows[3] # v_rows[3]

\* ------------------------------------------------------------------------
\* Properties: the return value, the status and the CSV
\* ------------------------------------------------------------------------

\* the CSV of the report is at the output path, whole
csv_exists ==
    csv_file.kind \in {"existing", "written"}

\* C28: process_single_report returns True only with the CSV of the report
\* at the output path.
C28_TrueOnlyWithCsv ==
    (pc = "done" /\ result = "True") => csv_exists

\* C29: the processed status changes only to 'Y' and only in a step after
\* which the CSV of the report is at the output path; a run that ends
\* without the CSV leaves the status as it was.
C29_StatusOnlyWithCsv ==
    /\ [][processed' # processed
            => /\ processed' = "Y"
               /\ csv_file'.kind \in {"existing", "written"}]_vars
    /\ [](processed = "Y" => csv_exists)
    /\ []((pc = "done" /\ ~csv_exists) => processed = "NULL")

C29_Witness ==
    /\ pc = "done"
    /\ processed = "Y"
    /\ csv_file.kind = "written"
    /\ Len(history) = 3
    /\ history[1].how # history[2].how

\* ------------------------------------------------------------------------
\* Properties: the crop window
\* ------------------------------------------------------------------------

\* C30: for the boundaries found and the size of the page the crop window is
\* inside the image and holds pixels.
C30_CropWindowInsideImage ==
    (t_pc = "enhance" /\ t_locals.stage = "thresholded")
        => LET window == crop_window(t_locals)
           IN  /\ 0 <= window.crop_top
               /\ window.crop_top < window.crop_bottom
               /\ window.crop_bottom <= t_locals.shape.height
               /\ 0 <= window.new_width2
               /\ window.new_width2 < window.new_width
               /\ window.new_width <= t_locals.shape.width

====
